---- MODULE Spec2Model ----
(***************************************************************************)
(* Clustered similarity search with hard-criteria filtering.               *)
(*                                                                         *)
(* The module models VectorStoreWriteService (the per-cluster index        *)
(* registry), SearchProfilesService.find_relevant_clusters (the router),   *)
(* SearchProfilesService.search (retrieval, filtering, merge) and          *)
(* SearchProfilesService.apply_hard_criteria (the filter).                 *)
(*                                                                         *)
(* Conventions.  Python values that may be None (or an attribute that is   *)
(* not set) are sequences of length at most one: <<>> is None, <<v>> is    *)
(* the value v.  A Python str is a sequence of one-character strings.      *)
(* Positions (global profile indices, local index positions, cluster ids)  *)
(* are 0-based as in the source; Seq values are 1-based, so position i of  *)
(* a Python list l is l[i + 1].  A vector is a pair of integers.           *)
(***************************************************************************)
EXTENDS Integers, Sequences, FiniteSets, TLC

\* ------------------------------------------------------------------ bounds

\* Largest requested result count (top_k) of a search call.
MaxTopK == 2

\* Largest requested cluster count (top_k_clusters) of a search call.
MaxTopKClusters == 3

\* Number of VectorStoreWriteService.run calls in one behaviour.
MaxBuilds == 2

\* Longest candidate list handed to a direct apply_hard_criteria call.
MaxCands == 2

\* Number of KMeansClusteringService.run calls in one behaviour.
MaxRuns == 2

\* Largest number of embeddings handed to KMeansClusteringService.run.
MaxCorpus == 80

\* Largest cluster count handed to KMeansClusteringService(n_clusters=...).
MaxSuppliedK == 6

\* Largest number of texts handed to one run_async call.
MaxTexts == 4

\* Largest max_concurrent_requests of a VectorStoreEmbeddingService.
MaxConcurrent == 2

\* Largest vector position returned by a similarity search on its own.
MaxPos == 2

\* Largest number of hits of one similarity search on its own.
MaxHits == 2

\* Longest local-to-global mapping handed to the translation on its own.
MaxMapping == 2

\* Over-fetch factor of the retriever (top_k * 3).
OverFetch == 3

\* ----------------------------------------------------------------- strings

None == <<>>

Some(v) == <<v>>

LowerChar(c) ==
    CASE c = "A" -> "a"
      [] c = "B" -> "b"
      [] OTHER -> c

\* str.lower()
Lower(s) == [i \in DOMAIN s |-> LowerChar(s[i])]

RECURSIVE LStrip(_)
LStrip(s) ==
    IF s # <<>> /\ Head(s) = " " THEN LStrip(Tail(s)) ELSE s

RECURSIVE RStrip(_)
RStrip(s) ==
    IF s # <<>> /\ s[Len(s)] = " " THEN RStrip(SubSeq(s, 1, Len(s) - 1)) ELSE s

\* str.strip()
Strip(s) == RStrip(LStrip(s))

\* a in b, for two str
IsSubstring(a, b) ==
    \E off \in 0..(Len(b) - Len(a)) : SubSeq(b, off + 1, off + Len(a)) = a

\* x in l, for a list l
InList(x, l) == \E i \in DOMAIN l : l[i] = x

\* ---------------------------------------------------------------- profiles

\* The corpus: ProfileData records, in corpus order.  company and education
\* are not declared fields of ProfileData (extra='allow'): None stands for an
\* attribute that is None or not set.
Profiles ==
    << [experience_years |-> Some(5),
        skills |-> << <<" ", "A", " ">>, <<"b">> >>,
        work_locations |-> << <<"A">> >>,
        study_locations |-> << <<"b">> >>,
        industry |-> Some(<<"a", "B">>),
        company |-> Some(<<"A", "b">>),
        education |-> Some(<<"b", "a">>),
        connections |-> Some(10)],
       [experience_years |-> Some(1),
        skills |-> << <<"b">> >>,
        work_locations |-> <<>>,
        study_locations |-> << <<"B">> >>,
        industry |-> Some(<<"b">>),
        company |-> None,
        education |-> Some(<<"B">>),
        connections |-> None],
       [experience_years |-> None,
        skills |-> << <<"a">> >>,
        work_locations |-> << <<"a", " ">> >>,
        study_locations |-> <<>>,
        industry |-> None,
        company |-> Some(<<"a">>),
        education |-> None,
        connections |-> Some(3)],
       [experience_years |-> Some(3),
        skills |-> <<>>,
        work_locations |-> << <<"a">> >>,
        study_locations |-> <<>>,
        industry |-> Some(<<"A">>),
        company |-> Some(<<"b">>),
        education |-> Some(<<"a", "b">>),
        connections |-> Some(0)] >>

NumProfiles == Len(Profiles)

\* self.profiles[idx]
ProfileAt(idx) == Profiles[idx + 1]

\* The corpus embeddings, row i for profile i (as handed to the index builder).
Embeddings == << <<2, 0>>, <<1, 1>>, <<0, 2>>, <<1, 0>> >>

\* ---------------------------------------------------------------- criteria

NoCriteria ==
    [min_experience |-> None, max_experience |-> None,
     required_skills |-> None, excluded_skills |-> None,
     locations |-> None, industries |-> None, companies |-> None,
     min_connections |-> None, education_keywords |-> None]

\* HardCriteria objects handed to the filter.
CriteriaChoices ==
    { NoCriteria,
      [NoCriteria EXCEPT !.min_experience = Some(2)],
      [NoCriteria EXCEPT !.max_experience = Some(3)],
      [NoCriteria EXCEPT !.min_experience = Some(0), !.max_experience = Some(5),
                         !.required_skills = Some(<< <<"A">> >>)],
      [NoCriteria EXCEPT !.min_experience = Some(1),
                         !.required_skills = Some(<< <<"a", "b">>, <<"B", " ">> >>)],
      [NoCriteria EXCEPT !.required_skills = Some(<<>>),
                         !.excluded_skills = Some(<<>>)],
      [NoCriteria EXCEPT !.excluded_skills = Some(<< <<" ", "a">> >>)],
      [NoCriteria EXCEPT !.excluded_skills = Some(<< <<"B">> >>),
                         !.required_skills = Some(<< <<"A">> >>)],
      [NoCriteria EXCEPT !.locations = Some(<< <<"a">> >>)],
      [NoCriteria EXCEPT !.locations = Some(<< <<"B">>, <<"a", "b">> >>)],
      [NoCriteria EXCEPT !.industries = Some(<< <<"B">> >>)],
      [NoCriteria EXCEPT !.industries = Some(<< <<"a">> >>),
                         !.min_experience = Some(4)],
      [NoCriteria EXCEPT !.companies = Some(<< <<"a">>, <<"B">> >>)],
      [NoCriteria EXCEPT !.education_keywords = Some(<< <<"A", "b">> >>)],
      [NoCriteria EXCEPT !.education_keywords = Some(<< <<"B">> >>),
                         !.locations = Some(<< <<"b">> >>)],
      [NoCriteria EXCEPT !.min_connections = Some(3)],
      [NoCriteria EXCEPT !.min_connections = Some(1),
                         !.locations = Some(<< <<"A">> >>)] }

\* Mutant of Truthy: "is not None" in place of the truth value, so that an
\* empty list counts as a constraint.
Truthy_NotNone(optlist) == optlist # None

\* Truth value of an Optional[List[str]] field: None and [] are both false.
Truthy(optlist) == optlist # None /\ optlist[1] # <<>>

\* ------------------------------------------------------------------ filter

\* [skill.lower().strip() for skill in skills]
SkillsLower(skills) == [i \in DOMAIN skills |-> Strip(Lower(skills[i]))]

\* Mutant of RequiredSkillMatch: all() in place of any().
RequiredSkillMatch_All(p, crit) ==
    \A i \in DOMAIN crit.required_skills[1] :
        InList(SkillsLower(crit.required_skills[1])[i], SkillsLower(p.skills))

\* any(req_skill in profile_skills_lower for req_skill in required_skills_lower)
RequiredSkillMatch(p, crit) ==
    \E i \in DOMAIN crit.required_skills[1] :
        InList(SkillsLower(crit.required_skills[1])[i], SkillsLower(p.skills))

\* Mutant of ExcludedSkillHit: the excluded skills are compared as written,
\* without lower() and strip().
ExcludedSkillHit_AsWritten(p, crit) ==
    \E i \in DOMAIN crit.excluded_skills[1] :
        InList(crit.excluded_skills[1][i], SkillsLower(p.skills))

\* any(exc_skill in profile_skills_lower for exc_skill in excluded_skills_lower)
ExcludedSkillHit(p, crit) ==
    \E i \in DOMAIN crit.excluded_skills[1] :
        InList(SkillsLower(crit.excluded_skills[1])[i], SkillsLower(p.skills))

\* Mutant of ProfileLocations: the study locations are left out.
ProfileLocations_WorkOnly(p) ==
    { Lower(p.work_locations[i]) : i \in DOMAIN p.work_locations }

\* {l.lower() for l in profile.work_locations + profile.study_locations}
ProfileLocations(p) ==
    { Lower((p.work_locations \o p.study_locations)[i]) :
        i \in DOMAIN (p.work_locations \o p.study_locations) }

\* any(loc.lower() in profile_locations for loc in criteria.locations)
LocationMatch(p, crit) ==
    \E i \in DOMAIN crit.locations[1] :
        Lower(crit.locations[1][i]) \in ProfileLocations(p)

\* any(entry.lower() in value.lower() for entry in entries), value a str
AnySubstring(entries, value) ==
    \E i \in DOMAIN entries : IsSubstring(Lower(entries[i]), Lower(value))

\* One iteration of the loop of apply_hard_criteria: "pass" (the index is
\* appended), "fail" (continue) or "raise" (the comparison or the .lower()
\* call on a None / unset attribute raises and the call ends).
EvalProfile(p, crit) ==
    IF crit.min_experience # None /\ p.experience_years = None THEN "raise"
    ELSE IF crit.min_experience # None
            /\ p.experience_years[1] < crit.min_experience[1] THEN "fail"
    ELSE IF crit.max_experience # None /\ p.experience_years = None THEN "raise"
    ELSE IF crit.max_experience # None
            /\ p.experience_years[1] > crit.max_experience[1] THEN "fail"
    ELSE IF Truthy(crit.required_skills) /\ ~RequiredSkillMatch(p, crit) THEN "fail"
    ELSE IF Truthy(crit.excluded_skills) /\ ExcludedSkillHit(p, crit) THEN "fail"
    ELSE IF Truthy(crit.locations) /\ ~LocationMatch(p, crit) THEN "fail"
    ELSE IF Truthy(crit.industries) /\ p.industry = None THEN "raise"
    ELSE IF Truthy(crit.industries)
            /\ ~AnySubstring(crit.industries[1], p.industry[1]) THEN "fail"
    ELSE IF Truthy(crit.companies) /\ p.company = None THEN "raise"
    ELSE IF Truthy(crit.companies)
            /\ ~AnySubstring(crit.companies[1], p.company[1]) THEN "fail"
    ELSE IF Truthy(crit.education_keywords) /\ p.education = None THEN "raise"
    ELSE IF Truthy(crit.education_keywords)
            /\ ~AnySubstring(crit.education_keywords[1], p.education[1]) THEN "fail"
    ELSE "pass"

RECURSIVE FilterLoop(_, _, _)
FilterLoop(todo, crit, valid_indices) ==
    IF todo = <<>> THEN [raised |-> FALSE, out |-> valid_indices]
    ELSE LET r == EvalProfile(ProfileAt(Head(todo)), crit)
         IN  IF r = "raise" THEN [raised |-> TRUE, out |-> <<>>]
             ELSE FilterLoop(Tail(todo), crit,
                             IF r = "pass" THEN Append(valid_indices, Head(todo))
                             ELSE valid_indices)

\* Mutant of ApplyHardCriteria: the last index that passed is not returned.
ApplyHardCriteria_DropsLast(profile_indices, crit) ==
    LET r == FilterLoop(profile_indices, crit, <<>>)
    IN  [raised |-> r.raised,
         out |-> IF r.out = <<>> THEN <<>> ELSE SubSeq(r.out, 1, Len(r.out) - 1)]

\* SearchProfilesService.apply_hard_criteria: raised is TRUE when the call
\* ends in an exception (out is then meaningless), else out is the returned
\* array of indices.
ApplyHardCriteria(profile_indices, crit) ==
    FilterLoop(profile_indices, crit, <<>>)

\* ----------------------------------------------------------------- vectors

Abs(x) == IF x < 0 THEN -x ELSE x

Min(a, b) == IF a < b THEN a ELSE b

\* np.dot of two vectors
Dot(u, v) == u[1] * v[1] + u[2] * v[2]

\* faiss.normalize_L2 on one row.  The vectors normalised here (query
\* embeddings, centroids) have at most one non-zero component, so the L2 norm
\* is the sum of the absolute values and the division is exact; a zero row is
\* left unchanged.
NormalizeL2(v) ==
    IF v = <<0, 0>> THEN v
    ELSE <<v[1] \div (Abs(v[1]) + Abs(v[2])), v[2] \div (Abs(v[1]) + Abs(v[2]))>>

\* Raw query embeddings returned by the embedding provider.
QueryEmbeddings == { <<3, 0>>, <<0, 2>> }

\* Centroid arrays handed to SearchProfilesService (row c for cluster id c).
CenterChoices ==
    { << <<2, 0>>, <<0, 3>>, <<-1, 0>> >>,
      << <<0, 1>>, <<0, 0>>, <<0, 2>> >> }

\* cluster_labels arrays handed to VectorStoreWriteService.run, one label per
\* corpus row.
LabelChoices ==
    { <<0, 0, 1, 1>>, <<0, 1, 2, 0>>, <<2, 2, 0, 2>>, <<1, 1, 1, 1>> }

\* ------------------------------------------------------------ sort / slice

\* Mutant of InsertDesc: x goes before the elements of equal similarity.
RECURSIVE InsertDesc_BeforeEquals(_, _)
InsertDesc_BeforeEquals(x, sorted) ==
    IF sorted = <<>> THEN <<x>>
    ELSE IF Head(sorted).similarity > x.similarity
         THEN <<Head(sorted)>> \o InsertDesc_BeforeEquals(x, Tail(sorted))
         ELSE <<x>> \o sorted

\* Position at which list.sort(key=similarity, reverse=True) places x among
\* the already sorted prefix: after every element whose similarity is >= x's
\* (the sort is stable).
RECURSIVE InsertDesc(_, _)
InsertDesc(x, sorted) ==
    IF sorted = <<>> THEN <<x>>
    ELSE IF Head(sorted).similarity >= x.similarity
         THEN <<Head(sorted)>> \o InsertDesc(x, Tail(sorted))
         ELSE <<x>> \o sorted

RECURSIVE SortFrom(_, _)
SortFrom(todo, sorted) ==
    IF todo = <<>> THEN sorted
    ELSE SortFrom(Tail(todo), InsertDesc(Head(todo), sorted))

\* l.sort(key=lambda x: x[similarity], reverse=True)
SortBySimilarity(l) == SortFrom(l, <<>>)

\* l[:n] for n >= 0
Take(l, n) == SubSeq(l, 1, Min(n, Len(l)))

\* ------------------------------------------------------------ index builder

\* np.where(cluster_labels == target)[0], from position i on
RECURSIVE WhereEq(_, _, _)
WhereEq(labels, target, i) ==
    IF i >= Len(labels) THEN <<>>
    ELSE (IF labels[i + 1] = target THEN <<i>> ELSE <<>>)
         \o WhereEq(labels, target, i + 1)

\* Mutant of MaskedRows: the first rows of the array instead of the masked ones.
MaskedRows_FirstRows(embeddings, positions) ==
    [j \in DOMAIN positions |-> embeddings[j]]

\* embeddings[cluster_mask]
MaskedRows(embeddings, positions) ==
    [j \in DOMAIN positions |-> embeddings[positions[j] + 1]]

\* The registry entry VectorStoreWriteService.write stores for one label: the
\* index holds the member rows in the order they were added.
ClusterEntry(embeddings, labels, target) ==
    [index |-> MaskedRows(embeddings, WhereEq(labels, target, 0)),
     profile_indices |-> WhereEq(labels, target, 0),
     size |-> Len(MaskedRows(embeddings, WhereEq(labels, target, 0)))]

\* VectorStoreWriteService.write: self.faiss_indices[target] = {...}
Write(reg, embeddings, labels, target) ==
    [c \in (DOMAIN reg) \cup {target} |->
        IF c = target THEN ClusterEntry(embeddings, labels, target) ELSE reg[c]]

\* np.unique(cluster_labels)
UniqueLabels(labels) == { labels[i] : i \in DOMAIN labels }

RECURSIVE WriteAll(_, _, _, _)
WriteAll(reg, embeddings, labels, todo) ==
    IF todo = {} THEN reg
    ELSE LET c == CHOOSE x \in todo : \A y \in todo : x <= y
         IN  WriteAll(Write(reg, embeddings, labels, c), embeddings, labels,
                      todo \ {c})

\* VectorStoreWriteService.run: one write per distinct label, in ascending
\* label order, into the registry the service already holds.
RunWrite(reg, embeddings, labels) ==
    WriteAll(reg, embeddings, labels, UniqueLabels(labels))

\* ------------------------------------------------------------------ router

\* Mutant of CentersAfterRouting: the rows are normalised in place.
CentersAfterRouting_InPlace(centers) ==
    [i \in DOMAIN centers |-> NormalizeL2(centers[i])]

\* self.cluster_centers after find_relevant_clusters: the rows are normalised
\* in a copy (self.cluster_centers.copy()), the array itself is left alone.
CentersAfterRouting(centers) == centers

\* The (cluster_id, similarity) list of find_relevant_clusters: one entry per
\* row of the normalised centroid array, in row order.
ClusterSimilarities(q, centers) ==
    [i \in DOMAIN centers |->
        [cluster_id |-> i - 1, similarity |-> Dot(q, NormalizeL2(centers[i]))]]

\* [cluster_id for cluster_id, _ in l if cluster_id in self.faiss_indices]
RECURSIVE IndexedIds(_, _)
IndexedIds(l, reg) ==
    IF l = <<>> THEN <<>>
    ELSE (IF Head(l).cluster_id \in DOMAIN reg THEN <<Head(l).cluster_id>> ELSE <<>>)
         \o IndexedIds(Tail(l), reg)

\* Mutant of FindRelevantClusters: the registry membership test is dropped.
FindRelevantClusters_NoRegistryTest(q, centers, reg, top_k_clusters) ==
    [i \in DOMAIN Take(SortBySimilarity(ClusterSimilarities(q, centers)),
                       top_k_clusters) |->
        Take(SortBySimilarity(ClusterSimilarities(q, centers)),
             top_k_clusters)[i].cluster_id]

\* SearchProfilesService.find_relevant_clusters, q the normalised query
\* embedding: sort, slice to top_k_clusters, then keep the ids in the registry.
FindRelevantClusters(q, centers, reg, top_k_clusters) ==
    IndexedIds(Take(SortBySimilarity(ClusterSimilarities(q, centers)),
                    top_k_clusters), reg)

\* --------------------------------------------------------------- retriever

\* Mutant of KForCluster: the cap by the mapping length is dropped.
KForCluster_NoCap(k, profile_indices) == k * OverFetch

\* k_for_cluster = min(top_k * 3, len(profile_indices))
KForCluster(k, profile_indices) == Min(k * OverFetch, Len(profile_indices))

\* The best of the local positions in rest: largest inner product with q, the
\* lowest position among equals.
BestPosition(index, q, rest) ==
    CHOOSE j \in rest : \A i \in rest :
        \/ Dot(q, index[j + 1]) > Dot(q, index[i + 1])
        \/ (Dot(q, index[j + 1]) = Dot(q, index[i + 1]) /\ j <= i)

RECURSIVE TopHits(_, _, _, _)
TopHits(index, q, rest, k) ==
    IF k = 0 \/ rest = {} THEN <<>>
    ELSE LET j == BestPosition(index, q, rest)
         IN  <<[pos |-> j, score |-> Dot(q, index[j + 1])]>>
             \o TopHits(index, q, rest \ {j}, k - 1)

\* index.search(query_embedding, k) on an inner-product flat index: the k
\* local positions with the largest inner product, best first.
IndexSearch(index, q, k) == TopHits(index, q, 0..(Len(index) - 1), k)

\* l[i] of a Python sequence (a negative i counts from the end)
PyIndex(l, i) == IF i >= 0 THEN l[i + 1] ELSE l[Len(l) + i + 1]

\* d[key] = val on an insertion-ordered dict kept as a list of entries
MapPut(d, key, val) ==
    IF \E i \in DOMAIN d : d[i].key = key
    THEN [i \in DOMAIN d |-> IF d[i].key = key THEN [key |-> key, val |-> val]
                             ELSE d[i]]
    ELSE Append(d, [key |-> key, val |-> val])

\* d[key]
MapGet(d, key) == d[CHOOSE i \in DOMAIN d : d[i].key = key].val

\* key in d
MapHas(d, key) == \E i \in DOMAIN d : d[i].key = key

\* list(d.keys())
MapKeys(d) == [i \in DOMAIN d |-> d[i].key]

\* The faiss_to_profile_map loop of search over the hits of one cluster.
RECURSIVE BuildMap(_, _, _)
BuildMap(hits, profile_indices, d) ==
    IF hits = <<>> THEN d
    ELSE BuildMap(Tail(hits), profile_indices,
                  IF Head(hits).pos < Len(profile_indices)
                  THEN MapPut(d, PyIndex(profile_indices, Head(hits).pos),
                              Head(hits).score)
                  ELSE d)

\* The result-collecting loop of search for one cluster.
RECURSIVE CollectResults(_, _, _)
CollectResults(filtered, d, cluster_id) ==
    IF filtered = <<>> THEN <<>>
    ELSE (IF MapHas(d, Head(filtered))
          THEN <<[profile |-> Head(filtered),
                  similarity |-> MapGet(d, Head(filtered)),
                  cluster_id |-> cluster_id]>>
          ELSE <<>>)
         \o CollectResults(Tail(filtered), d, cluster_id)

\* The candidate map of one cluster for a query and a requested count.
ClusterMap(info, q, k) ==
    BuildMap(IndexSearch(info.index, q, KForCluster(k, info.profile_indices)),
             info.profile_indices, <<>>)

\* The hard-criteria branch of search: the filter runs when a criteria
\* object is given (any HardCriteria object is true), else all candidates stay.
FilterCandidates(cands, hc) ==
    IF hc # None THEN ApplyHardCriteria(cands, hc[1])
    ELSE [raised |-> FALSE, out |-> cands]

\* Mutant of MergeResults: the sort is dropped.
MergeResults_NoSort(all, k) == Take(all, k)

\* all_results.sort(...); return all_results[:top_k]
MergeResults(all, k) == Take(SortBySimilarity(all), k)

\* ------------------------------------------------------------------- state

VARIABLES
    faiss_indices,      \* the registry: cluster id -> {index, profile_indices, size}
    cluster_centers,    \* the centroid array of the search service
    builds,             \* number of VectorStoreWriteService.run calls so far
    pc,                 \* "idle", "searching", "done" (returned), "error" (raised)
    call,               \* the arguments of the search call in progress or last made
    relevant_clusters,  \* the list returned by find_relevant_clusters
    next_cluster,       \* position in relevant_clusters of the next loop iteration
    all_results,        \* the all_results list of search
    searched,           \* per loop iteration: cluster id, k_for_cluster, candidates, filtered
    results,            \* the list returned by search
    filter_call,        \* the last direct apply_hard_criteria call: arguments and outcome
    raised,             \* where the exception that ended search came from ("none" if none)
    last_build,         \* the last call on the index builder: operation and labels
    index_files,        \* labels c whose file cluster_<c>.index was written
    n_clusters_arg,     \* the n_clusters argument KMeansClusteringService was created with
    n_clusters,         \* KMeansClusteringService.n_clusters
    kmeans_runs,        \* number of calls of KMeansClusteringService.run so far
    kmeans_result,      \* the outcome of the last KMeansClusteringService.run
    optimal_call,       \* the last direct find_optimal_clusters call: arguments and outcome
    embed_pc,           \* run_async: "idle", "gather" (a chunk is running), "returned"
    embed_call,         \* the service settings and arguments of the run_async call
    chunk,              \* first and last text position of the running embed_batch_async
    task,               \* per text position, the state of its embed_with_aiohttp task
    permits,            \* free permits of the service's semaphore
    embed_result,       \* the value returned by run_async: None or Some(list)
    translate_call      \* the last translation of search hits on its own: inputs and outcome

search_vars ==
    <<faiss_indices, cluster_centers, builds, pc, call, relevant_clusters,
      next_cluster, all_results, searched, results, filter_call, raised, last_build, index_files>>

kmeans_vars ==
    <<n_clusters_arg, n_clusters, kmeans_runs, kmeans_result, optimal_call>>

embed_vars == <<embed_pc, embed_call, chunk, task, permits, embed_result>>

retriever_vars == <<translate_call>>

vars == <<search_vars, kmeans_vars, embed_vars, retriever_vars>>

NoCall == [query_embedding |-> <<0, 0>>, hard_criteria |-> None,
           top_k |-> 0, top_k_clusters |-> 0]

\* Sequences over S of length at most n
RECURSIVE SeqsUpTo(_, _)
SeqsUpTo(S, n) ==
    IF n = 0 THEN { <<>> }
    ELSE SeqsUpTo(S, n - 1)
         \cup { Append(l, x) : l \in SeqsUpTo(S, n - 1), x \in S }

ProfileIds == 0..(NumProfiles - 1)

\* The local variables of search when no call is in progress.
ClearSearch ==
    /\ pc' = "idle"
    /\ call' = NoCall
    /\ relevant_clusters' = <<>>
    /\ next_cluster' = 1
    /\ all_results' = <<>>
    /\ searched' = <<>>
    /\ results' = <<>>
    /\ raised' = "none"

\* No call on the index builder was made yet.
NoBuild == [op |-> "none", labels |-> <<>>, target |-> 0]

\* VectorStoreWriteService.__init__ (empty registry) and the construction of
\* SearchProfilesService over that registry and a centroid array.
SearchInit ==
    /\ faiss_indices = <<>>
    /\ cluster_centers \in CenterChoices
    /\ builds = 0
    /\ pc = "idle"
    /\ call = NoCall
    /\ relevant_clusters = <<>>
    /\ next_cluster = 1
    /\ all_results = <<>>
    /\ searched = <<>>
    /\ results = <<>>
    /\ filter_call = None
    /\ raised = "none"
    /\ last_build = NoBuild
    /\ index_files = {}

\* KMeansClusteringService() constructed without a cluster count, not yet run.
KMeansIdle ==
    /\ n_clusters_arg = None
    /\ n_clusters = None
    /\ kmeans_runs = 0
    /\ kmeans_result = None
    /\ optimal_call = None

\* VectorStoreEmbeddingService with no run_async call made.
EmbedIdle ==
    /\ embed_pc = "idle"
    /\ embed_call = [max_concurrent_requests |-> 1, use_progress |-> FALSE, n |-> 0]
    /\ chunk = <<1, 0>>
    /\ task = <<>>
    /\ permits = 1
    /\ embed_result = None

\* The services after construction.
Init ==
    /\ SearchInit
    /\ KMeansIdle
    /\ EmbedIdle
    /\ translate_call = None

\* VectorStoreWriteService.run(embeddings, cluster_labels), between searches.
Build(labels) ==
    /\ pc = "idle"
    /\ builds < MaxBuilds
    /\ faiss_indices' = RunWrite(faiss_indices, Embeddings, labels)
    /\ builds' = builds + 1
    /\ last_build' = [op |-> "run", labels |-> labels, target |-> 0]
    /\ index_files' = index_files \cup UniqueLabels(labels)
    /\ UNCHANGED <<cluster_centers, pc, call, relevant_clusters, next_cluster,
                   all_results, searched, results, filter_call, raised>>
    /\ UNCHANGED <<kmeans_vars, embed_vars, retriever_vars>>

\* Arguments of direct calls of VectorStoreWriteService.write: a label array
\* and a target label, with and without members of that label.
WriteChoices ==
    { [labels |-> <<0, 0, 1, 1>>, target |-> 2],
      [labels |-> <<1, 1, 1, 1>>, target |-> 0],
      [labels |-> <<0, 1, 2, 0>>, target |-> 1] }

\* VectorStoreWriteService.write(embeddings, cluster_labels, target) called
\* directly, between searches: the mask may select no row, and the entry is
\* stored all the same.
WriteCluster(labels, target) ==
    /\ pc = "idle"
    /\ builds < MaxBuilds
    /\ faiss_indices' = Write(faiss_indices, Embeddings, labels, target)
    /\ builds' = builds + 1
    /\ last_build' = [op |-> "write", labels |-> labels, target |-> target]
    /\ index_files' = index_files \cup {target}
    /\ UNCHANGED <<cluster_centers, pc, call, relevant_clusters, next_cluster,
                   all_results, searched, results, filter_call, raised>>
    /\ UNCHANGED <<kmeans_vars, embed_vars, retriever_vars>>

\* SearchProfilesService.search up to the start of the loop over the relevant
\* clusters: the router call and the normalised query embedding.
SearchStart(qe, hc, k, kc) ==
    /\ pc = "idle"
    /\ pc' = "searching"
    /\ call' = [query_embedding |-> NormalizeL2(qe), hard_criteria |-> hc,
                top_k |-> k, top_k_clusters |-> kc]
    /\ relevant_clusters' =
           FindRelevantClusters(NormalizeL2(qe), cluster_centers, faiss_indices, kc)
    /\ cluster_centers' = CentersAfterRouting(cluster_centers)
    /\ next_cluster' = 1
    /\ all_results' = <<>>
    /\ searched' = <<>>
    /\ results' = <<>>
    /\ UNCHANGED <<faiss_indices, builds, filter_call, raised,
                   last_build, index_files>>
    /\ UNCHANGED <<kmeans_vars, embed_vars, retriever_vars>>

\* Mutant of AfterEmbedFailure: the exception is swallowed and search returns
\* the results gathered so far.
AfterEmbedFailure_Swallowed == "done"

\* Where search stands after embedding_model.embed raised: neither
\* find_relevant_clusters nor search catches, so the call ends in the error.
AfterEmbedFailure == "error"

\* SearchProfilesService.search when the embedding provider fails for the
\* query text: in find_relevant_clusters (in_router, nothing is computed yet),
\* or in search itself, after the router returned for the embedding qe.
SearchEmbedFails(qe, hc, k, kc, in_router) ==
    /\ pc = "idle"
    /\ pc' = AfterEmbedFailure
    /\ raised' = "embedding_model.embed"
    /\ call' = [query_embedding |-> IF in_router THEN <<0, 0>> ELSE NormalizeL2(qe),
                hard_criteria |-> hc, top_k |-> k, top_k_clusters |-> kc]
    /\ relevant_clusters' =
           IF in_router THEN <<>>
           ELSE FindRelevantClusters(NormalizeL2(qe), cluster_centers,
                                     faiss_indices, kc)
    /\ cluster_centers' =
           IF in_router THEN cluster_centers
           ELSE CentersAfterRouting(cluster_centers)
    /\ next_cluster' = 1
    /\ all_results' = <<>>
    /\ searched' = <<>>
    /\ results' = <<>>
    /\ UNCHANGED <<faiss_indices, builds, filter_call, last_build, index_files>>
    /\ UNCHANGED <<kmeans_vars, embed_vars, retriever_vars>>

\* One iteration of the loop of search over relevant_clusters.
SearchCluster ==
    /\ pc = "searching"
    /\ next_cluster <= Len(relevant_clusters)
    /\ LET cluster_id == relevant_clusters[next_cluster]
       IN  IF cluster_id \notin DOMAIN faiss_indices
           THEN /\ next_cluster' = next_cluster + 1
                /\ UNCHANGED <<pc, all_results, searched, raised>>
           ELSE LET info == faiss_indices[cluster_id]
                    d == ClusterMap(info, call.query_embedding, call.top_k)
                    fr == FilterCandidates(MapKeys(d), call.hard_criteria)
                IN  IF fr.raised
                    THEN /\ pc' = "error"
                         /\ raised' = "apply_hard_criteria"
                         /\ UNCHANGED <<next_cluster, all_results, searched>>
                    ELSE /\ next_cluster' = next_cluster + 1
                         /\ all_results' =
                                all_results \o CollectResults(fr.out, d, cluster_id)
                         /\ searched' =
                                Append(searched,
                                       [cluster_id |-> cluster_id,
                                        k_for_cluster |->
                                            KForCluster(call.top_k, info.profile_indices),
                                        candidates |-> MapKeys(d),
                                        filtered |-> fr.out])
                         /\ UNCHANGED <<pc, raised>>
    /\ UNCHANGED <<faiss_indices, cluster_centers, builds, call,
                   relevant_clusters, results, filter_call, last_build, index_files>>
    /\ UNCHANGED <<kmeans_vars, embed_vars, retriever_vars>>

\* index.search called with k = 0: the Python wrapper of the similarity
\* library either returns no neighbours (SearchCluster) or refuses k = 0 with
\* an assertion error, depending on its version.
SearchIndexRefuses ==
    /\ pc = "searching"
    /\ next_cluster <= Len(relevant_clusters)
    /\ relevant_clusters[next_cluster] \in DOMAIN faiss_indices
    /\ KForCluster(call.top_k,
                   faiss_indices[relevant_clusters[next_cluster]].profile_indices) = 0
    /\ pc' = "error"
    /\ raised' = "index.search k=0"
    /\ UNCHANGED <<faiss_indices, cluster_centers, builds, call, relevant_clusters,
                   next_cluster, all_results, searched, results, filter_call,
                   last_build, index_files>>
    /\ UNCHANGED <<kmeans_vars, embed_vars, retriever_vars>>

\* index.search raises for the cluster at hand (a failure of the similarity
\* library, such as a query whose dimension is not the index's): the call is
\* not inside a try block, so the exception leaves the loop and search.
SearchBackendFails ==
    /\ pc = "searching"
    /\ next_cluster <= Len(relevant_clusters)
    /\ relevant_clusters[next_cluster] \in DOMAIN faiss_indices
    /\ pc' = "error"
    /\ raised' = "index.search"
    /\ UNCHANGED <<faiss_indices, cluster_centers, builds, call, relevant_clusters,
                   next_cluster, all_results, searched, results, filter_call,
                   last_build, index_files>>
    /\ UNCHANGED <<kmeans_vars, embed_vars, retriever_vars>>

\* The end of search: sort all_results and return the first top_k.
SearchFinish ==
    /\ pc = "searching"
    /\ next_cluster > Len(relevant_clusters)
    /\ results' = MergeResults(all_results, call.top_k)
    /\ pc' = "done"
    /\ UNCHANGED <<faiss_indices, cluster_centers, builds, call, relevant_clusters,
                   next_cluster, all_results, searched, filter_call, raised,
                   last_build, index_files>>
    /\ UNCHANGED <<kmeans_vars, embed_vars, retriever_vars>>

\* The call of search is over (it returned or raised): its locals are gone
\* and the caller may call again.
SearchReturn ==
    /\ pc \in {"done", "error"}
    /\ ClearSearch
    /\ UNCHANGED <<faiss_indices, cluster_centers, builds, filter_call, last_build, index_files>>
    /\ UNCHANGED <<kmeans_vars, embed_vars, retriever_vars>>

Next ==
    \/ \E labels \in LabelChoices : Build(labels)
    \/ \E qe \in QueryEmbeddings, hc \in {None} \cup { Some(c) : c \in CriteriaChoices },
          k \in 0..MaxTopK, kc \in 0..MaxTopKClusters :
          SearchStart(qe, hc, k, kc)
    \/ SearchCluster
    \/ SearchIndexRefuses
    \/ SearchBackendFails
    \/ SearchFinish
    \/ SearchReturn

Spec == Init /\ [][Next]_vars

\* The index builder used through run and through direct calls of write, and
\* searches without criteria over the registry it holds.
IndexNext ==
    \/ \E labels \in LabelChoices : Build(labels)
    \/ \E w \in WriteChoices : WriteCluster(w.labels, w.target)
    \/ \E qe \in QueryEmbeddings, k \in 0..MaxTopK, kc \in 0..MaxTopKClusters :
           SearchStart(qe, None, k, kc)
    \/ \E qe \in QueryEmbeddings, k \in 0..MaxTopK, kc \in 0..MaxTopKClusters,
          in_router \in BOOLEAN :
           SearchEmbedFails(qe, None, k, kc, in_router)
    \/ SearchCluster
    \/ SearchIndexRefuses
    \/ SearchFinish
    \/ SearchReturn

IndexSpec == Init /\ [][IndexNext]_vars

\* A direct call of SearchProfilesService.apply_hard_criteria.
CallApplyHardCriteria(profile_indices, crit) ==
    /\ pc = "idle"
    /\ filter_call = None
    /\ filter_call' =
           Some([profile_indices |-> profile_indices, criteria |-> crit,
                 raised |-> ApplyHardCriteria(profile_indices, crit).raised,
                 out |-> ApplyHardCriteria(profile_indices, crit).out,
                 of_output |-> FALSE])
    /\ UNCHANGED <<faiss_indices, cluster_centers, builds, pc, call,
                   relevant_clusters, next_cluster, all_results, searched, results,
                   raised, last_build, index_files>>
    /\ UNCHANGED <<kmeans_vars, embed_vars, retriever_vars>>

\* The caller hands the array returned by a direct call back to
\* apply_hard_criteria with the same criteria.
ReapplyHardCriteria ==
    /\ pc = "idle"
    /\ filter_call # None
    /\ ~filter_call[1].raised
    /\ ~filter_call[1].of_output
    /\ LET r == ApplyHardCriteria(filter_call[1].out, filter_call[1].criteria)
       IN  filter_call' =
               Some([profile_indices |-> filter_call[1].out,
                     criteria |-> filter_call[1].criteria,
                     raised |-> r.raised, out |-> r.out, of_output |-> TRUE])
    /\ UNCHANGED <<faiss_indices, cluster_centers, builds, pc, call,
                   relevant_clusters, next_cluster, all_results, searched, results,
                   raised, last_build, index_files>>
    /\ UNCHANGED <<kmeans_vars, embed_vars, retriever_vars>>

\* The direct call is over: the caller holds the outcome and may call again.
FilterReturn ==
    /\ filter_call # None
    /\ filter_call' = None
    /\ UNCHANGED <<faiss_indices, cluster_centers, builds, pc, call,
                   relevant_clusters, next_cluster, all_results, searched, results,
                   raised, last_build, index_files>>
    /\ UNCHANGED <<kmeans_vars, embed_vars, retriever_vars>>

FilterNext ==
    \/ \E profile_indices \in SeqsUpTo(ProfileIds, MaxCands), crit \in CriteriaChoices :
           CallApplyHardCriteria(profile_indices, crit)
    \/ ReapplyHardCriteria
    \/ FilterReturn

\* The filter on its own: every behaviour is a sequence of direct calls.
FilterSpec == Init /\ [][FilterNext]_vars

\* ------------------------------------------------------------- partitioner

\* find_optimal_clusters: the first candidate K, the default of max_k and the
\* divisor of the sample size in range(5, min(max_k, len(sample) // 10)).
MinK == 5

DefaultMaxK == 100

SampleDivisor == 10

\* k_range for a sample of n embeddings (n is at most MaxCorpus, far below the
\* 100000 above which a random subset is drawn, so the sample is the corpus).
KRange(n) == MinK..(Min(DefaultMaxK, n \div SampleDivisor) - 1)

\* k_range of find_optimal_clusters called with an explicit max_k.
KRangeOf(n, max_k) == MinK..(Min(max_k, n \div SampleDivisor) - 1)

\* Values of max_k handed to direct calls of find_optimal_clusters.
MaxKChoices == {MinK, MinK + 2, DefaultMaxK}

\* Stand-ins for the silhouette scores of the trial fits.
ScoreChoices == {0, 1}

\* Mutant of ArgMaxK: among equal scores the last K wins.
ArgMaxK_Last(k_range, scores) ==
    CHOOSE k \in k_range :
        /\ \A j \in k_range : scores[j] <= scores[k]
        /\ \A j \in k_range : scores[j] = scores[k] => k >= j

\* k_range[np.argmax(silhouette_scores)] for a non-empty k_range and the
\* scores appended in the order of k_range.
ArgMaxK(k_range, scores) ==
    CHOOSE k \in k_range :
        /\ \A j \in k_range : scores[j] <= scores[k]
        /\ \A j \in k_range : scores[j] = scores[k] => k <= j

\* find_optimal_clusters(embeddings) as run calls it, with the default max_k:
\* argmax returns the first position of the maximum.
OptimalK(n, scores) == ArgMaxK(KRange(n), scores)

\* Mutant of FitLabels: labels counted from 1.
FitLabels_OneBased(n, k, shift) == [i \in 1..n |-> ((i - 1 + shift) % k) + 1]

\* KMeans(n_clusters=k).fit(embeddings).labels_ for n >= k >= 1 embeddings:
\* the library assigns each position one label in 0..k-1; which one depends
\* on the embeddings, represented here by shift.
FitLabels(n, k, shift) == [i \in 1..n |-> (i - 1 + shift) % k]

\* kmeans.cluster_centers_: one row per cluster (the row stands for itself).
FitCenters(k) == [c \in 1..k |-> c - 1]

\* KMeans.fit raises ValueError for n_clusters < 1 (parameter validation) and
\* for fewer samples than clusters.
FitRaises(n, k) == k < 1 \/ n < k

\* The outcome of a run that ended in an exception.
RunRaised(n, auto, source) ==
    [n |-> n, auto |-> auto, raised |-> source, labels |-> <<>>,
     cluster_centers |-> <<>>]

\* KMeansClusteringService(n_clusters=arg)
KMeansCreate(arg) ==
    /\ optimal_call = None
    /\ kmeans_runs = 0
    /\ n_clusters_arg = None
    /\ arg # None
    /\ n_clusters_arg' = arg
    /\ n_clusters' = arg
    /\ UNCHANGED <<kmeans_runs, kmeans_result, optimal_call>>
    /\ UNCHANGED <<search_vars, embed_vars, retriever_vars>>

\* KMeansClusteringService.run on n embeddings.  auto records whether
\* find_optimal_clusters was called by this run.
KMeansRun(n, shift, scores) ==
    /\ kmeans_result = None
    /\ optimal_call = None
    /\ kmeans_runs < MaxRuns
    /\ kmeans_runs' = kmeans_runs + 1
    /\ IF n_clusters = None /\ KRange(n) = {}
       THEN \* np.argmax of an empty list raises ValueError before the assignment
            /\ kmeans_result' = Some(RunRaised(n, TRUE, "np.argmax"))
            /\ UNCHANGED n_clusters
       ELSE LET k == IF n_clusters = None THEN OptimalK(n, scores)
                     ELSE n_clusters[1]
            IN  /\ n_clusters' = Some(k)
                /\ kmeans_result' =
                       IF FitRaises(n, k)
                       THEN Some(RunRaised(n, n_clusters = None, "KMeans.fit"))
                       ELSE Some([n |-> n, auto |-> n_clusters = None,
                                  raised |-> "none",
                                  labels |-> FitLabels(n, k, shift),
                                  cluster_centers |-> FitCenters(k)])
    /\ UNCHANGED <<n_clusters_arg, optimal_call>>
    /\ UNCHANGED <<search_vars, embed_vars, retriever_vars>>

\* The call of run is over: the caller holds the outcome and may call again.
KMeansReturn ==
    /\ kmeans_result # None
    /\ kmeans_result' = None
    /\ UNCHANGED <<n_clusters_arg, n_clusters, kmeans_runs, optimal_call>>
    /\ UNCHANGED <<search_vars, embed_vars, retriever_vars>>

\* A direct call of find_optimal_clusters(embeddings, max_k) on n embeddings:
\* np.argmax of the empty score list raises ValueError when k_range is empty.
FindOptimalClusters(n, max_k, scores) ==
    /\ optimal_call = None
    /\ kmeans_result = None
    /\ optimal_call' =
           Some([n |-> n, max_k |-> max_k, scores |-> scores,
                 raised |-> KRangeOf(n, max_k) = {},
                 optimal_k |-> IF KRangeOf(n, max_k) = {} THEN 0
                               ELSE ArgMaxK(KRangeOf(n, max_k), scores)])
    /\ UNCHANGED <<n_clusters_arg, n_clusters, kmeans_runs, kmeans_result>>
    /\ UNCHANGED <<search_vars, embed_vars, retriever_vars>>

\* The direct call is over.
FindOptimalReturn ==
    /\ optimal_call # None
    /\ optimal_call' = None
    /\ UNCHANGED <<n_clusters_arg, n_clusters, kmeans_runs, kmeans_result>>
    /\ UNCHANGED <<search_vars, embed_vars, retriever_vars>>

KMeansNext ==
    \/ \E arg \in {Some(k) : k \in 0..MaxSuppliedK} : KMeansCreate(arg)
    \/ \E n \in 0..MaxCorpus, shift \in 0..1 :
           \E scores \in [KRange(n) -> ScoreChoices] : KMeansRun(n, shift, scores)
    \/ KMeansReturn
    \/ \E n \in 0..MaxCorpus, max_k \in MaxKChoices :
           \E scores \in [KRangeOf(n, max_k) -> ScoreChoices] :
               FindOptimalClusters(n, max_k, scores)
    \/ FindOptimalReturn

\* The partitioner on its own: a service is created with or without a cluster
\* count and run on corpora of any size up to MaxCorpus.
KMeansSpec == Init /\ [][KMeansNext]_vars

\* ---------------------------------------------------------- bulk embedding

\* Mutant of CanAcquire: the semaphore lets every task through.
CanAcquire_Always(free) == TRUE

\* asyncio.Semaphore: "async with self.semaphore" goes on when a permit is free.
CanAcquire(free) == free > 0

\* The dict embed_with_aiohttp returns for the text at position i on a 200
\* response with data: the key and a 1-tuple holding the vector (the vector of
\* text i is represented by i).
EmbeddingEntry(i) == [key |-> i, embedding |-> <<i>>]

\* processed_embeddings of embed_batch_async for the texts lo..hi: the result
\* of each task in task order, None for a failed one (a list entry is None or
\* Some(dict)).
ProcessedEmbeddings(tasks, lo, hi) ==
    [j \in 1..(hi - lo + 1) |->
        IF tasks[lo + j - 1] = "ok" THEN Some(EmbeddingEntry(lo + j - 1)) ELSE None]

\* The tasks of embed_batch_async for the texts lo..hi are created.
StartChunk(tasks, lo, hi) ==
    [i \in DOMAIN tasks |-> IF i \in lo..hi THEN "waiting" ELSE tasks[i]]

\* run_async(texts, use_progress) on a service with max_concurrent_requests
\* = maxc, up to the first await: an empty text list returns [] on either
\* path; otherwise the first embed_batch_async call creates its tasks, for
\* all texts or, with progress, for the first chunk.
RunAsync(maxc, use_progress, n) ==
    /\ embed_pc = "idle"
    /\ embed_call' = [max_concurrent_requests |-> maxc,
                      use_progress |-> use_progress, n |-> n]
    /\ permits' = maxc
    /\ IF n = 0
       THEN /\ embed_pc' = "returned"
            /\ embed_result' = Some(<<>>)
            /\ task' = <<>>
            /\ chunk' = <<1, 0>>
       ELSE /\ embed_pc' = "gather"
            /\ embed_result' = None
            /\ chunk' = <<1, IF use_progress THEN Min(maxc, n) ELSE n>>
            /\ task' = StartChunk([i \in 1..n |-> "new"], 1,
                                  IF use_progress THEN Min(maxc, n) ELSE n)
    /\ UNCHANGED <<search_vars, kmeans_vars, retriever_vars>>

\* embed_with_aiohttp of text i enters "async with self.semaphore" and posts
\* its request.
Acquire(i) ==
    /\ embed_pc = "gather"
    /\ i \in DOMAIN task
    /\ task[i] = "waiting"
    /\ CanAcquire(permits)
    /\ permits' = permits - 1
    /\ task' = [task EXCEPT ![i] = "inflight"]
    /\ UNCHANGED <<embed_pc, embed_call, chunk, embed_result>>
    /\ UNCHANGED <<search_vars, kmeans_vars, retriever_vars>>

\* The request of text i ends: "ok" is a 200 response with data, "failed" a
\* non-200 response, empty data or an exception.  The semaphore is released.
Respond(i, outcome) ==
    /\ embed_pc = "gather"
    /\ i \in DOMAIN task
    /\ task[i] = "inflight"
    /\ permits' = permits + 1
    /\ task' = [task EXCEPT ![i] = outcome]
    /\ UNCHANGED <<embed_pc, embed_call, chunk, embed_result>>
    /\ UNCHANGED <<search_vars, kmeans_vars, retriever_vars>>

\* asyncio.gather of the running embed_batch_async is complete.  Without
\* progress run_async returns its processed list.  With progress
\* embed_batch_with_progress saves the chunk and goes on to the next chunk,
\* and after the last chunk returns None.
GatherDone ==
    /\ embed_pc = "gather"
    /\ \A i \in chunk[1]..chunk[2] : task[i] \in {"ok", "failed"}
    /\ IF ~embed_call.use_progress
       THEN /\ embed_pc' = "returned"
            /\ embed_result' = Some(ProcessedEmbeddings(task, chunk[1], chunk[2]))
            /\ UNCHANGED <<chunk, task>>
       ELSE IF chunk[2] < embed_call.n
       THEN /\ chunk' = <<chunk[2] + 1,
                          Min(chunk[2] + embed_call.max_concurrent_requests,
                              embed_call.n)>>
            /\ task' = StartChunk(task, chunk[2] + 1,
                                  Min(chunk[2] + embed_call.max_concurrent_requests,
                                      embed_call.n))
            /\ UNCHANGED <<embed_pc, embed_result>>
       ELSE /\ embed_pc' = "returned"
            /\ embed_result' = None
            /\ UNCHANGED <<chunk, task>>
    /\ UNCHANGED <<embed_call, permits>>
    /\ UNCHANGED <<search_vars, kmeans_vars, retriever_vars>>

\* The caller has the returned value and may call run_async again.
EmbedReturn ==
    /\ embed_pc = "returned"
    /\ embed_pc' = "idle"
    /\ embed_call' = [max_concurrent_requests |-> 1, use_progress |-> FALSE, n |-> 0]
    /\ chunk' = <<1, 0>>
    /\ task' = <<>>
    /\ permits' = 1
    /\ embed_result' = None
    /\ UNCHANGED <<search_vars, kmeans_vars, retriever_vars>>

EmbedNext ==
    \/ \E maxc \in 1..MaxConcurrent, use_progress \in BOOLEAN, n \in 0..MaxTexts :
           RunAsync(maxc, use_progress, n)
    \/ \E i \in 1..MaxTexts : Acquire(i)
    \/ \E i \in 1..MaxTexts, outcome \in {"ok", "failed"} : Respond(i, outcome)
    \/ GatherDone
    \/ EmbedReturn

\* Bulk embedding on its own: run_async calls, one at a time, whose request
\* tasks interleave freely.
EmbedSpec == Init /\ [][EmbedNext]_vars

\* ------------------------------------------------- translation of the hits

\* Local positions a similarity search can return: -1 is the library's "no
\* result" filler, the others are positions of vectors of the index.
HitPositions == (-1)..MaxPos

\* Stand-ins for the similarity scores of the hits.
HitScores == 0..1

\* What index.search can return: at most MaxHits hits, best first, no vector
\* position twice, the fillers after the vector positions.
HitLists ==
    { h \in SeqsUpTo([pos : HitPositions, score : HitScores], MaxHits) :
          /\ \A i, j \in DOMAIN h :
                 i < j => /\ h[i].score >= h[j].score
                          /\ h[i].pos = -1 => h[j].pos = -1
                          /\ h[i].pos # -1 => h[i].pos # h[j].pos }

\* Local-to-global mappings handed to search in a registry entry, those of a
\* damaged entry (a repeated identity, fewer or more entries than the index
\* has vectors) included.
MappingChoices == SeqsUpTo(0..1, MaxMapping)

\* profile_indices[faiss_idx] raises IndexError: the position passed the
\* "faiss_idx < len(profile_indices)" test and is no index of the array.
TranslationRaises(hits, profile_indices) ==
    \E i \in DOMAIN hits :
        /\ hits[i].pos < Len(profile_indices)
        /\ hits[i].pos < -Len(profile_indices)

\* The faiss_to_profile_map loop of search applied to the hits of one
\* cluster search and the mapping of that cluster's registry entry.  When an
\* index expression raises, the call ends in the exception and no map is kept.
TranslateHits(hits, profile_indices) ==
    /\ translate_call = None
    /\ translate_call' =
           Some([hits |-> hits, profile_indices |-> profile_indices,
                 raised |-> TranslationRaises(hits, profile_indices),
                 map |-> IF TranslationRaises(hits, profile_indices) THEN <<>>
                         ELSE BuildMap(hits, profile_indices, <<>>)])
    /\ UNCHANGED <<search_vars, kmeans_vars, embed_vars>>

\* The translation is over; another one may be made.
TranslateReturn ==
    /\ translate_call # None
    /\ translate_call' = None
    /\ UNCHANGED <<search_vars, kmeans_vars, embed_vars>>

RetrieverNext ==
    \/ \E hits \in HitLists, profile_indices \in MappingChoices :
           TranslateHits(hits, profile_indices)
    \/ TranslateReturn

\* The translation of local positions on its own, over every hit list and
\* mapping within the bounds.
RetrieverSpec == Init /\ [][RetrieverNext]_vars

\* ================================================================== claims

\* The call of search returned (it did not raise).
Returned == pc = "done"

\* find_relevant_clusters has returned for the call in progress or last made.
Routed == pc \in {"searching", "done", "error"}

\* Similarity of the query of the call to the centroid of cluster c.
CentroidSimilarity(c) ==
    Dot(call.query_embedding, NormalizeL2(cluster_centers[c + 1]))

\* Cluster ids that have a centroid and an entry in the registry.
IndexedClusters ==
    { c \in 0..(Len(cluster_centers) - 1) : c \in DOMAIN faiss_indices }

\* C1: no profile identity appears more than once in the list returned by
\* search, whatever the per-cluster indices contain.
C1_NoDuplicateIdentity ==
    Returned =>
        \A i, j \in DOMAIN results :
            i # j => results[i].profile # results[j].profile

\* C2: the list returned by search is ordered by similarity, non-increasing,
\* and has at most top_k entries.
C2_SortedAndTruncated ==
    Returned =>
        /\ Len(results) <= call.top_k
        /\ \A i, j \in DOMAIN results :
               i < j => results[i].similarity >= results[j].similarity

\* C2 witness: a search returned top_k results cut from a longer all_results
\* list that was not in score order.
C2_Witness ==
    /\ Returned
    /\ Len(results) = call.top_k
    /\ Len(all_results) > Len(results)
    /\ \E i, j \in DOMAIN all_results :
           i < j /\ all_results[i].similarity < all_results[j].similarity
    /\ results[1].similarity > results[Len(results)].similarity

\* C3: find_relevant_clusters returns only ids of the registry, at most
\* top_k_clusters of them, none twice, in non-increasing order of the
\* query-to-centroid similarity.
C3_RouterResult ==
    Routed =>
        /\ \A i \in DOMAIN relevant_clusters :
               relevant_clusters[i] \in DOMAIN faiss_indices
        /\ Len(relevant_clusters) <= call.top_k_clusters
        /\ \A i, j \in DOMAIN relevant_clusters :
               i # j => relevant_clusters[i] # relevant_clusters[j]
        /\ \A i, j \in DOMAIN relevant_clusters :
               i < j => CentroidSimilarity(relevant_clusters[i])
                            >= CentroidSimilarity(relevant_clusters[j])

\* C3 witness: the router returned two clusters, the later id first, while a
\* cluster with a centroid has no registry entry.
C3_Witness ==
    /\ Routed
    /\ Len(relevant_clusters) >= 2
    /\ relevant_clusters[1] > relevant_clusters[2]
    /\ CentroidSimilarity(relevant_clusters[1])
           > CentroidSimilarity(relevant_clusters[2])
    /\ \E c \in 0..(Len(cluster_centers) - 1) : c \notin DOMAIN faiss_indices

\* C4: find_relevant_clusters with target count N returns
\* min(N, number of clusters with a built index) ids.
C4_CountIsMinOfTargetAndIndexed ==
    Routed =>
        Len(relevant_clusters) = Min(call.top_k_clusters, Cardinality(IndexedClusters))

\* C5: for every searched cluster the number of neighbours requested equals
\* min(top_k * 3, length of the cluster's mapping) and never exceeds the
\* cluster's member count.
C5_OverFetchCapped ==
    \A i \in DOMAIN searched :
        /\ searched[i].k_for_cluster =
               Min(call.top_k * OverFetch,
                   Len(faiss_indices[searched[i].cluster_id].profile_indices))
        /\ searched[i].k_for_cluster <= faiss_indices[searched[i].cluster_id].size
        /\ Len(searched[i].candidates) <= searched[i].k_for_cluster

\* C5 witness: one search asked a small cluster for all of its members (the
\* cap applied) and a larger cluster for top_k * 3 of them.
C5_Witness ==
    /\ \E i \in DOMAIN searched :
           /\ searched[i].k_for_cluster < call.top_k * OverFetch
           /\ searched[i].k_for_cluster > 0
    /\ \E i \in DOMAIN searched :
           /\ searched[i].k_for_cluster = call.top_k * OverFetch
           /\ searched[i].k_for_cluster
                  < Len(faiss_indices[searched[i].cluster_id].profile_indices)

\* ------------------------------------------------------- filter categories
\* The categories of the hard-criteria policy, stated per profile and
\* criteria object, independently of the evaluation order of the filter.  A
\* profile without the attribute a present criterion refers to does not pass
\* that category.

\* s and t are equal after lower-casing and trimming both.
SameSkill(s, t) == Strip(Lower(s)) = Strip(Lower(t))

HasSkillOf(p, skills) ==
    \E i \in DOMAIN p.skills, j \in DOMAIN skills : SameSkill(p.skills[i], skills[j])

PassesExperience(p, crit) ==
    /\ crit.min_experience # None =>
           p.experience_years # None
           /\ p.experience_years[1] >= crit.min_experience[1]
    /\ crit.max_experience # None =>
           p.experience_years # None
           /\ p.experience_years[1] <= crit.max_experience[1]

PassesConnections(p, crit) ==
    crit.min_connections # None =>
        p.connections # None /\ p.connections[1] >= crit.min_connections[1]

PassesRequiredSkills(p, crit) ==
    Truthy(crit.required_skills) => HasSkillOf(p, crit.required_skills[1])

PassesExcludedSkills(p, crit) ==
    Truthy(crit.excluded_skills) => ~HasSkillOf(p, crit.excluded_skills[1])

PassesLocations(p, crit) ==
    Truthy(crit.locations) =>
        \E i \in DOMAIN crit.locations[1] :
            \/ \E j \in DOMAIN p.work_locations :
                   Lower(p.work_locations[j]) = Lower(crit.locations[1][i])
            \/ \E j \in DOMAIN p.study_locations :
                   Lower(p.study_locations[j]) = Lower(crit.locations[1][i])

\* At least one entry is, case-insensitively, a substring of the attribute.
PassesSubstring(optentries, attribute) ==
    Truthy(optentries) =>
        /\ attribute # None
        /\ \E i \in DOMAIN optentries[1] :
               IsSubstring(Lower(optentries[1][i]), Lower(attribute[1]))

\* Every category the filter evaluates (all but min_connections).
PassesEvaluated(p, crit) ==
    /\ PassesExperience(p, crit)
    /\ PassesRequiredSkills(p, crit)
    /\ PassesExcludedSkills(p, crit)
    /\ PassesLocations(p, crit)
    /\ PassesSubstring(crit.industries, p.industry)
    /\ PassesSubstring(crit.companies, p.company)
    /\ PassesSubstring(crit.education_keywords, p.education)

\* The subsequence of l whose profiles pass the evaluated categories.
RECURSIVE Passing(_, _)
Passing(l, crit) ==
    IF l = <<>> THEN <<>>
    ELSE (IF PassesEvaluated(ProfileAt(Head(l)), crit) THEN <<Head(l)>> ELSE <<>>)
         \o Passing(Tail(l), crit)

\* C6: with excluded_skills non-empty, no profile in the output of the filter,
\* and none in the list returned by search, has a skill equal (lower-cased,
\* trimmed) to an excluded skill.
C6_NoExcludedSkillInOutput ==
    (call.hard_criteria # None /\ Truthy(call.hard_criteria[1].excluded_skills)) =>
        /\ \A i \in DOMAIN searched : \A j \in DOMAIN searched[i].filtered :
               ~HasSkillOf(ProfileAt(searched[i].filtered[j]),
                           call.hard_criteria[1].excluded_skills[1])
        /\ \A i \in DOMAIN results :
               ~HasSkillOf(ProfileAt(results[i].profile),
                           call.hard_criteria[1].excluded_skills[1])

\* C6 witness: a search returned results although the best-scored candidate of
\* a cluster matched a required skill and was removed for an excluded skill
\* written in another case.
C6_Witness ==
    /\ Returned
    /\ call.hard_criteria # None
    /\ Truthy(call.hard_criteria[1].excluded_skills)
    /\ Truthy(call.hard_criteria[1].required_skills)
    /\ results # <<>>
    /\ \E i \in DOMAIN searched :
           /\ searched[i].candidates # <<>>
           /\ ~InList(searched[i].candidates[1], searched[i].filtered)
           /\ PassesRequiredSkills(ProfileAt(searched[i].candidates[1]),
                                   call.hard_criteria[1])
           /\ HasSkillOf(ProfileAt(searched[i].candidates[1]),
                         call.hard_criteria[1].excluded_skills[1])
           /\ ~InList(call.hard_criteria[1].excluded_skills[1][1],
                      ProfileAt(searched[i].candidates[1]).skills)

\* The search call set required_skills and an experience bound.
SkillsAndExperienceCall ==
    /\ call.hard_criteria # None
    /\ Truthy(call.hard_criteria[1].required_skills)
    /\ (call.hard_criteria[1].min_experience # None
        \/ call.hard_criteria[1].max_experience # None)

C8_MinConnectionsEnforced ==
    (filter_call # None /\ ~filter_call[1].raised) =>
        \A i \in DOMAIN filter_call[1].out :
            PassesConnections(ProfileAt(filter_call[1].out[i]), filter_call[1].criteria)

\* C9: apply_hard_criteria never raises because of a missing profile attribute.
C9_FilterNeverRaises ==
    filter_call # None => ~filter_call[1].raised

ListFields ==
    {"required_skills", "excluded_skills", "locations", "industries",
     "companies", "education_keywords"}

\* Every field of crit is absent, but for list fields that may be empty lists.
AbsentOrEmpty(crit) ==
    /\ \A f \in {"min_experience", "max_experience", "min_connections"} :
           crit[f] = None
    /\ \A f \in ListFields : crit[f] = None \/ crit[f] = Some(<<>>)

\* What search returns for the query, top_k and relevant clusters of the call
\* when it is given hard_criteria = None: every candidate of every relevant
\* cluster is collected, then the list is sorted and cut.
RECURSIVE CollectUnfiltered(_)
CollectUnfiltered(clusters) ==
    IF clusters = <<>> THEN <<>>
    ELSE LET cluster_id == Head(clusters)
             d == ClusterMap(faiss_indices[cluster_id], call.query_embedding,
                             call.top_k)
         IN  IF cluster_id \notin DOMAIN faiss_indices
             THEN CollectUnfiltered(Tail(clusters))
             ELSE CollectResults(MapKeys(d), d, cluster_id)
                      \o CollectUnfiltered(Tail(clusters))

SearchWithoutCriteria ==
    MergeResults(CollectUnfiltered(relevant_clusters), call.top_k)

\* C11: a search given a criteria object whose fields are all absent (or whose
\* lists are empty) never fails in the filter, drops no candidate of any
\* cluster, and returns the list the same search returns with
\* hard_criteria = None: same profiles, scores, cluster ids and order.
C11_EmptyCriteriaIsNoCriteria ==
    (call.hard_criteria # None /\ AbsentOrEmpty(call.hard_criteria[1])) =>
        /\ raised # "apply_hard_criteria"
        /\ \A i \in DOMAIN searched : searched[i].filtered = searched[i].candidates
        /\ Returned => results = SearchWithoutCriteria

\* C11 witness: a search with a criteria object of empty lists returned two
\* results that come from two clusters.
C11_Witness ==
    /\ Returned
    /\ call.hard_criteria # None
    /\ AbsentOrEmpty(call.hard_criteria[1])
    /\ call.hard_criteria[1].required_skills = Some(<<>>)
    /\ Len(results) = 2
    /\ results[1].cluster_id # results[2].cluster_id
    /\ results = SearchWithoutCriteria

\* C12: apply_hard_criteria is idempotent: handed its own output and the same
\* criteria, it does not raise and returns that output unchanged, same
\* identities in the same order, also when the output is empty.
C12_FilterIdempotent ==
    (filter_call # None /\ filter_call[1].of_output) =>
        /\ ~filter_call[1].raised
        /\ filter_call[1].out = filter_call[1].profile_indices

\* C12 witness: the filter was re-applied to a non-empty output of a call
\* made with a constraining criteria object.
C12_Witness ==
    /\ filter_call # None
    /\ filter_call[1].of_output
    /\ ~AbsentOrEmpty(filter_call[1].criteria)
    /\ Len(filter_call[1].profile_indices) = 2
    /\ filter_call[1].out = filter_call[1].profile_indices

\* The entry of cluster c in the registry holds no vector.
EmptyEntry(c) == c \in DOMAIN faiss_indices /\ faiss_indices[c].size = 0

\* C13: a cluster with zero members is never returned by the router and never
\* searched, and a search over a registry that holds a zero-size entry does
\* not fail in index.search.
C13_EmptyClusterNeverSelected ==
    /\ Routed =>
           \A i \in DOMAIN relevant_clusters : ~EmptyEntry(relevant_clusters[i])
    /\ \A i \in DOMAIN searched : ~EmptyEntry(searched[i].cluster_id)
    /\ (\E c \in DOMAIN faiss_indices : EmptyEntry(c)) => raised # "index.search k=0"

\* The last call of KMeansClusteringService.run returned.
KMeansReturned == kmeans_result # None /\ kmeans_result[1].raised = "none"

\* C14: a run on N embeddings that returns, returns N labels, each an integer
\* in [0, K), and K centroids, where K is the count the service was created
\* with or, when this run chose it, a member of the K range of the corpus.
C14_LabelsAndCentroids ==
    KMeansReturned =>
        LET K == n_clusters[1]
            r == kmeans_result[1]
        IN  /\ n_clusters # None
            /\ Len(r.labels) = r.n
            /\ \A i \in DOMAIN r.labels : r.labels[i] \in 0..(K - 1)
            /\ Len(r.cluster_centers) = K
            /\ n_clusters_arg # None => K = n_clusters_arg[1]
            /\ r.auto => K \in KRange(r.n)

\* C14 witness: a run that chose K itself returned, on a corpus whose K range
\* has more than one member, and every label below K is used.
C14_Witness ==
    /\ KMeansReturned
    /\ kmeans_result[1].auto
    /\ kmeans_result[1].n >= 70
    /\ n_clusters = Some(6)
    /\ \A c \in 0..5 : \E i \in DOMAIN kmeans_result[1].labels :
           kmeans_result[1].labels[i] = c

\* C16: when the service was created without a cluster count and the K range
\* of the corpus of a run is empty, that run fails: it ends in an exception
\* and returns no labels and no centroids.
C16_TooSmallCorpusFails ==
    (/\ kmeans_result # None
     /\ n_clusters_arg = None
     /\ KRange(kmeans_result[1].n) = {}) =>
        /\ kmeans_result[1].raised # "none"
        /\ kmeans_result[1].labels = <<>>
        /\ kmeans_result[1].cluster_centers = <<>>

\* The corpus positions whose label is c in the labels of the last run.
Members(c) ==
    { i \in 0..(Len(last_build.labels) - 1) : last_build.labels[i + 1] = c }

\* The global positions in the local-to-global mapping of cluster c.
Mapped(c) ==
    { faiss_indices[c].profile_indices[j] :
          j \in DOMAIN faiss_indices[c].profile_indices }

\* C15: after VectorStoreWriteService.run(embeddings, labels), the mapping of
\* every cluster in the registry holds exactly the corpus positions whose
\* label is that cluster, so every corpus position is in the mapping of
\* exactly one cluster.
C15_MappingIsLabelClass ==
    last_build.op = "run" =>
        /\ \A c \in DOMAIN faiss_indices : Mapped(c) = Members(c)
        /\ \A i \in 0..(Len(last_build.labels) - 1) :
               Cardinality({ c \in DOMAIN faiss_indices : i \in Mapped(c) }) = 1

\* C17: the registry returned by a run is never modified afterwards: no later
\* step changes its entries, their indices or their mappings.
C17_ReturnedGenerationNeverModified ==
    [][last_build.op = "run" => faiss_indices' = faiss_indices]_vars

\* C18: when the similarity search of one selected cluster fails, search
\* skips that cluster and goes on: the failure does not end the call in an
\* error.
C18_FailedClusterIsSkipped ==
    raised = "index.search" => pc # "error"

\* The texts whose request is in flight.
InFlight == { i \in DOMAIN task : task[i] = "inflight" }

\* C19: during bulk embedding, with or without progress, the number of
\* requests in flight is at every moment at most max_concurrent_requests.
C19_InFlightBounded ==
    Cardinality(InFlight) <= embed_call.max_concurrent_requests

\* C19 witness: max_concurrent_requests requests are in flight while another
\* task of the same gather waits for the semaphore.
C19_Witness ==
    /\ embed_pc = "gather"
    /\ Cardinality(InFlight) = embed_call.max_concurrent_requests
    /\ \E i \in DOMAIN task : task[i] = "waiting"

\* C20: run_async returns a list with one entry per text, in input order:
\* None for a text whose request failed and the embedding entry of the text
\* for every other one.
C20_OneEntryPerText ==
    embed_pc = "returned" =>
        /\ embed_result # None
        /\ DOMAIN embed_result[1] = 1..embed_call.n
        /\ \A i \in 1..embed_call.n :
               embed_result[1][i] =
                   IF task[i] = "failed" THEN None ELSE Some(EmbeddingEntry(i))

\* C21: when the embedding provider fails for the query text, search ends in
\* an error: it returns no list, and no cluster was searched; a cluster is
\* searched only in a call whose query embedding succeeded.
C21_EmbedFailureIsFatal ==
    /\ raised = "embedding_model.embed" =>
           /\ pc = "error"
           /\ searched = <<>>
           /\ all_results = <<>>
    /\ Returned => raised = "none"
    /\ searched # <<>> => raised # "embedding_model.embed"

\* C21 witness: the provider failed in search after the router had selected
\* two clusters of the registry, and the call is in error.
C21_Witness ==
    /\ raised = "embedding_model.embed"
    /\ pc = "error"
    /\ Len(relevant_clusters) = 2
    /\ call.top_k > 0

\* The place of cluster c in the order the clusters were searched.
SearchRank(c) == CHOOSE i \in DOMAIN searched : searched[i].cluster_id = c

\* The place of profile p in the order the similarity search of cluster c
\* returned its candidates.
HitRank(c, p) ==
    CHOOSE j \in DOMAIN searched[SearchRank(c)].candidates :
        searched[SearchRank(c)].candidates[j] = p

\* x comes before y in the tie order: its cluster was searched earlier, or
\* both come from one cluster whose search returned x first.
BeforeInTieOrder(x, y) ==
    \/ SearchRank(x.cluster_id) < SearchRank(y.cluster_id)
    \/ /\ x.cluster_id = y.cluster_id
       /\ HitRank(x.cluster_id, x.profile) < HitRank(y.cluster_id, y.profile)

\* C22: results of equal similarity are returned in the order their clusters
\* were searched and, within a cluster, in the order its similarity search
\* returned them; the cut to top_k comes after this ordering, so a result
\* left out never ties with a returned one that it precedes.
C22_TiesKeepSearchOrder ==
    Returned =>
        /\ \A i, j \in DOMAIN results :
               (i < j /\ results[i].similarity = results[j].similarity)
                   => BeforeInTieOrder(results[i], results[j])
        /\ Len(results) = Min(call.top_k, Len(all_results))
        /\ \A a \in DOMAIN all_results : \A i \in DOMAIN results :
               (\A j \in DOMAIN results : results[j] # all_results[a]) =>
                   \/ all_results[a].similarity < results[i].similarity
                   \/ /\ all_results[a].similarity = results[i].similarity
                      /\ BeforeInTieOrder(results[i], all_results[a])

\* C22 witness: two results of equal similarity from two clusters were
\* returned, and a third result of the same similarity was cut off.
C22_Witness ==
    /\ Returned
    /\ Len(results) = 2
    /\ results[1].similarity = results[2].similarity
    /\ results[1].cluster_id # results[2].cluster_id
    /\ \E a \in DOMAIN all_results :
           /\ all_results[a].similarity = results[2].similarity
           /\ all_results[a] # results[1]
           /\ all_results[a] # results[2]

\* The hit at place i of the translation names a valid position of the mapping.
ValidHit(i) ==
    /\ translate_call[1].hits[i].pos >= 0
    /\ translate_call[1].hits[i].pos < Len(translate_call[1].profile_indices)

\* The identity at the position of the valid hit at place i.
HitIdentity(i) ==
    translate_call[1].profile_indices[translate_call[1].hits[i].pos + 1]

\* C23: when two returned positions of one cluster search name the same
\* identity, the candidate map records the higher of their scores: the score
\* kept for an identity is the largest score of the valid hits that name it.
C23_KeepsHigherScore ==
    (translate_call # None /\ ~translate_call[1].raised
         /\ \A i \in DOMAIN translate_call[1].hits : ValidHit(i)) =>
        \A e \in DOMAIN translate_call[1].map :
            \A i \in DOMAIN translate_call[1].hits :
                HitIdentity(i) = translate_call[1].map[e].key
                    => translate_call[1].map[e].val >= translate_call[1].hits[i].score

\* C28: the translation does not fail, and it translates a returned position
\* only when it is a valid position of the mapping: every identity in the
\* candidate map is the mapping entry at a valid returned position, and every
\* valid returned position has its identity in the map.
C28_OnlyValidPositionsTranslated ==
    translate_call # None =>
        /\ ~translate_call[1].raised
        /\ \A e \in DOMAIN translate_call[1].map :
               \E i \in DOMAIN translate_call[1].hits :
                   ValidHit(i) /\ HitIdentity(i) = translate_call[1].map[e].key
        /\ \A i \in DOMAIN translate_call[1].hits :
               ValidHit(i) => MapHas(translate_call[1].map, HitIdentity(i))

\* The candidate K values of the last direct find_optimal_clusters call:
\* 5, 6, ... up to but excluding min(max_k, sample_size // 10).
Candidates ==
    { k \in 5..DefaultMaxK :
          /\ k < optimal_call[1].max_k
          /\ k < optimal_call[1].n \div 10 }

\* C24: find_optimal_clusters returns a K of the candidate range whose score
\* is maximal and, among the K of maximal score, the smallest.
C24_OptimalKIsFirstMaximum ==
    (optimal_call # None /\ Candidates # {}) =>
        /\ ~optimal_call[1].raised
        /\ optimal_call[1].optimal_k \in Candidates
        /\ \A j \in Candidates :
               /\ optimal_call[1].scores[j]
                      <= optimal_call[1].scores[optimal_call[1].optimal_k]
               /\ optimal_call[1].scores[j]
                      = optimal_call[1].scores[optimal_call[1].optimal_k]
                      => optimal_call[1].optimal_k <= j

\* C24 witness: a call whose range is cut by max_k returned the smaller of
\* two K of equal, maximal score.
C24_Witness ==
    /\ optimal_call # None
    /\ optimal_call[1].max_k = 7
    /\ Candidates = {5, 6}
    /\ optimal_call[1].scores[5] = optimal_call[1].scores[6]
    /\ optimal_call[1].optimal_k = 5

\* C27: run has no side effect on the service: the configured cluster count
\* is at all times the one the service was created with, and a service
\* created without a count chooses K in every run.
C27_RunKeepsConfiguredCount ==
    /\ n_clusters = n_clusters_arg
    /\ (kmeans_result # None /\ n_clusters_arg = None) => kmeans_result[1].auto

\* C30: after a builder run the registry holds an entry for exactly the
\* labels that occur in the labels of that run, and none left from an
\* earlier run.
C30_RegistryIsLastRunSnapshot ==
    last_build.op = "run" =>
        DOMAIN faiss_indices =
            { last_build.labels[i] : i \in DOMAIN last_build.labels }

\* C25: a direct build for a label without members does not fail, records a
\* zero-size entry for the label, and creates no similarity index for it.
C25_EmptyLabelGetsNoIndex ==
    (last_build.op = "write" /\ Members(last_build.target) = {}) =>
        /\ last_build.target \in DOMAIN faiss_indices
        /\ faiss_indices[last_build.target].size = 0
        /\ last_build.target \notin index_files

\* What a repetition of the search in progress would compute from the registry
\* and the centroids as they are now: the same routing and, for every cluster
\* searched so far, the same candidates.
RepeatAgrees ==
    pc \in {"searching", "done"} =>
        /\ relevant_clusters =
               FindRelevantClusters(call.query_embedding, cluster_centers,
                                    faiss_indices, call.top_k_clusters)
        /\ \A i \in DOMAIN searched :
               /\ searched[i].cluster_id \in DOMAIN faiss_indices
               /\ searched[i].candidates =
                      MapKeys(ClusterMap(faiss_indices[searched[i].cluster_id],
                                         call.query_embedding, call.top_k))
        /\ pc = "done" => results = MergeResults(all_results, call.top_k)

\* C26: the query path is read-only: every step that is not a call of the
\* index builder, whether the search goes on, returns or fails, leaves the
\* registry, its indices and mappings, the index files and the centroids as
\* they were, so that repeating the search computes the same routing and the
\* same candidates.
C26_QueryPathReadOnly ==
    /\ [][builds' = builds =>
              /\ faiss_indices' = faiss_indices
              /\ cluster_centers' = cluster_centers
              /\ index_files' = index_files]_vars
    /\ []RepeatAgrees

\* C26 witness: a search over a built registry searched two clusters and
\* returned results.
C26_Witness ==
    /\ pc = "done"
    /\ builds > 0
    /\ Len(searched) = 2
    /\ results # <<>>

\* C29: in every registry entry the mapping is strictly ascending, its length
\* is the number of vectors of the index and the recorded member count, the
\* vector at local position i is the embedding of global position mapping[i],
\* and the entry holds index, mapping and count together, its index file
\* written.
C29_EntryIsDenseAndPaired ==
    \A c \in DOMAIN faiss_indices :
        /\ DOMAIN faiss_indices[c] = {"index", "profile_indices", "size"}
        /\ c \in index_files
        /\ \A i, j \in DOMAIN faiss_indices[c].profile_indices :
               i < j => faiss_indices[c].profile_indices[i]
                            < faiss_indices[c].profile_indices[j]
        /\ Len(faiss_indices[c].profile_indices) = Len(faiss_indices[c].index)
        /\ faiss_indices[c].size = Len(faiss_indices[c].index)
        /\ \A i \in DOMAIN faiss_indices[c].index :
               faiss_indices[c].index[i]
                   = Embeddings[faiss_indices[c].profile_indices[i] + 1]

\* C29 witness: an entry whose members are not neighbours in the corpus:
\* local positions 0 and 1 stand for global positions 0 and 3.
C29_Witness ==
    \E c \in DOMAIN faiss_indices :
        /\ faiss_indices[c].profile_indices = <<0, 3>>
        /\ faiss_indices[c].size = 2

====
